---- MODULE Spec2Model ----
(***************************************************************************)
(* Barcode batch generator: the code classifier and validator, the render  *)
(* engine (generateBarcodeWithBwip), the SVG to EPS conversion and the     *)
(* POST /preview-barcode and POST /generate-batch handlers of              *)
(* src/src/main/main.ts.                                                   *)
(*                                                                         *)
(* Strings are sequences of one-character strings, so that trimming,       *)
(* whitespace stripping, the digit test and length tests are computed.     *)
(***************************************************************************)
EXTENDS Integers, Sequences, FiniteSets, TLC

VARIABLES
    pcode,      \* SpecPure: the code string handed to classify / validate
    ptype,      \* SpecPure: the symbology key handed to validate
    detected,   \* SpecPure: result of detectBarcodeType(pcode), or "unset"
    valid,      \* SpecPure: <<validateCode(pcode, ptype)>>, or <<>> before the call
    req,        \* the batch request body: barcodeNumbers, fileFormat
    pc,         \* position of the /generate-batch handler
    dirExists,  \* whether outDir exists
    files,      \* names of the files present in outDir
    codes,      \* the trimmed, non-empty codes (const codes)
    item,       \* per code: state of its async map callback and of its render
    mapIdx,     \* next index codes.map will call the callback with
    microq,     \* items whose await continuation is queued (microtask order)
    successfulFiles,
    failedCodes,
    calls,      \* how often classify, validate and the renderers were called
    res,        \* the HTTP response
    archive,    \* the archiver instance
    conv,       \* SpecEps: a call of convertSVGToEPS, its arguments and result
    preview,    \* SpecPreview: the /preview-barcode handler and the temp directory
    multi       \* SpecDirs: two /generate-batch handlers, the clock and the temp directory

\* The variables of the classifier and validator calls.
cvars == <<pcode, ptype, detected, valid>>

\* The variables of the other calls and handlers.
ovars == <<conv, preview, multi>>

pvars == <<cvars, ovars>>

bvars == <<req, pc, dirExists, files, codes, item, mapIdx, microq,
           successfulFiles, failedCodes, calls, res, archive>>

vars == <<pvars, bvars>>

(***************************************************************************)
(* Characters and strings                                                  *)
(***************************************************************************)
AsciiDigits == {"0", "1", "2", "3", "4", "5", "6", "7", "8", "9"}

\* JavaScript's \s class, restricted to the characters the model uses.
WhiteSpace == {" ", "\t", "\n"}

\* The i-th digit of the model's digit strings: 1,2,...,9,0,1,...
DigitAt(i) == CASE i % 10 = 0 -> "0"
                [] i % 10 = 1 -> "1"
                [] i % 10 = 2 -> "2"
                [] i % 10 = 3 -> "3"
                [] i % 10 = 4 -> "4"
                [] i % 10 = 5 -> "5"
                [] i % 10 = 6 -> "6"
                [] i % 10 = 7 -> "7"
                [] i % 10 = 8 -> "8"
                [] OTHER      -> "9"

Digits(n) == [i \in 1..n |-> DigitAt(i)]

Range(s) == {s[i] : i \in DOMAIN s}

\* JavaScript null / undefined
Null == "null"
Undefined == "undefined"

(***************************************************************************)
(* BARCODE_CONFIGS and the property lookup BARCODE_CONFIGS[type]           *)
(***************************************************************************)
\* Mutant: the ean13 entry also accepts 14 digits.
BARCODE_CONFIGS_WideEan ==
    [itf14 |-> [defined |-> TRUE, bcid |-> "interleaved2of5", isArray |-> FALSE, length |-> <<14>>],
     ean13 |-> [defined |-> TRUE, bcid |-> "ean13", isArray |-> TRUE, length |-> <<12, 13, 14>>]]

\* length: a number (isArray = FALSE, one element) or an array of numbers.
BARCODE_CONFIGS ==
    [itf14 |-> [defined |-> TRUE, bcid |-> "interleaved2of5", isArray |-> FALSE, length |-> <<14>>],
     ean13 |-> [defined |-> TRUE, bcid |-> "ean13", isArray |-> TRUE, length |-> <<12, 13>>]]

\* The object literal's prototype is Object.prototype: a key that is not an
\* own property resolves to the inherited member.  Functions carry a numeric
\* .length (their arity); Object.prototype itself (key __proto__) has none.
ObjectPrototypeArity ==
    [constructor |-> 1, toString |-> 0, valueOf |-> 0, hasOwnProperty |-> 1,
     isPrototypeOf |-> 1, toLocaleString |-> 0, __defineGetter__ |-> 2]

\* The value of a lookup that finds no property (undefined, falsy).
NoConfig == [defined |-> FALSE, bcid |-> Undefined, isArray |-> FALSE, length |-> <<>>]

\* BARCODE_CONFIGS[type]: the value found on the object or on its prototype
\* (truthy: defined = TRUE), or NoConfig when the chain has no such key.
ConfigLookup(type) ==
    IF type \in DOMAIN BARCODE_CONFIGS THEN BARCODE_CONFIGS[type]
    ELSE IF type \in DOMAIN ObjectPrototypeArity
         THEN [defined |-> TRUE, bcid |-> Undefined, isArray |-> FALSE,
               length |-> <<ObjectPrototypeArity[type]>>]
    ELSE IF type = "__proto__"
         THEN [defined |-> TRUE, bcid |-> Undefined, isArray |-> FALSE, length |-> <<>>]
    ELSE NoConfig

(***************************************************************************)
(* detectBarcodeType and validateCode                                      *)
(***************************************************************************)
\* Mutant: the pattern without its anchors, /\d+/.
DigitsOnly_Unanchored(code) == \E i \in 1..Len(code) : code[i] \in AsciiDigits

\* /^\d+$/.test(code): one or more characters, each an ASCII digit.
DigitsOnly(code) ==
    /\ Len(code) >= 1
    /\ \A i \in 1..Len(code) : code[i] \in AsciiDigits

detectBarcodeType(code) ==
    IF ~DigitsOnly(code) THEN Null
    ELSE IF Len(code) = 14 THEN "itf14"
    ELSE IF Len(code) \in {12, 13} THEN "ean13"
    ELSE Null

validateCode(code, type) ==
    IF ~DigitsOnly(code) THEN FALSE
    ELSE LET config == ConfigLookup(type) IN
         IF ~config.defined THEN FALSE
         ELSE IF config.isArray THEN Len(code) \in Range(config.length)
         ELSE \* code.length === expectedLength; false when it is undefined
              /\ Len(config.length) = 1
              /\ Len(code) = config.length[1]

(***************************************************************************)
(* String operations used by the handlers                                  *)
(***************************************************************************)
\* String.prototype.trim(): drop leading and trailing whitespace.
Trim(s) ==
    LET keep == {i \in 1..Len(s) : s[i] \notin WhiteSpace} IN
    IF keep = {} THEN <<>>
    ELSE LET first == CHOOSE i \in keep : \A j \in keep : i <= j
             last  == CHOOSE i \in keep : \A j \in keep : i >= j
         IN SubSeq(s, first, last)

IsWhiteSpace(c) == c \in WhiteSpace

\* rawCode.replace(/\s+/g, ''): drop every whitespace character.
StripWhiteSpace(s) == SelectSeq(s, LAMBDA c : ~IsWhiteSpace(c))

\* Mutant: map(trim) without the filter(Boolean).
NormalizeCodes_NoFilter(items) == [i \in 1..Len(items) |-> Trim(items[i])]

NonEmpty(s) == s # <<>>

\* barcodeNumbers.map(code => String(code).trim()).filter(Boolean)
NormalizeCodes(items) ==
    SelectSeq([i \in 1..Len(items) |-> Trim(items[i])], NonEmpty)

\* const format = fileFormat || 'png': undefined and '' are falsy.
Format(fileFormat) == IF fileFormat \in {Undefined, ""} THEN "png" ELSE fileFormat

\* A JSON value of the request body as far as Number() tells them apart:
\* absent, a number, or a string.
JsUndefined == [kind |-> "undefined", n |-> 0, s |-> <<>>]
JsNumber(k) == [kind |-> "number", n |-> k, s |-> <<>>]
JsString(str) == [kind |-> "string", n |-> 0, s |-> str]

NaN == [nan |-> TRUE, n |-> 0]

DigitValue(c) == CHOOSE d \in 0..9 : DigitAt(d) = c

RECURSIVE DecimalValue(_)
DecimalValue(str) ==
    IF str = <<>> THEN 0
    ELSE 10 * DecimalValue(SubSeq(str, 1, Len(str) - 1)) + DigitValue(str[Len(str)])

\* Number(v): undefined is NaN; a string is trimmed, '' is 0, decimal digits
\* are their value, and the model's other strings are NaN.
ToNumber(v) ==
    IF v.kind = "undefined" THEN NaN
    ELSE IF v.kind = "number" THEN [nan |-> FALSE, n |-> v.n]
    ELSE IF Trim(v.s) = <<>> THEN [nan |-> FALSE, n |-> 0]
    ELSE IF DigitsOnly(Trim(v.s)) THEN [nan |-> FALSE, n |-> DecimalValue(Trim(v.s))]
    ELSE NaN

\* Number(v) || default: NaN and 0 are falsy.
NumberOr(v, default) ==
    IF ToNumber(v).nan \/ ToNumber(v).n = 0 THEN default ELSE ToNumber(v).n

\* filenamePrefix || '': absent and '' are falsy.
PrefixOr(prefix) == IF prefix.defined THEN prefix.s ELSE <<>>

\* format === 'svg' ? '.svg' : format === 'eps' ? '.eps' : '.png'
Extension(format) ==
    IF format = "svg" THEN <<".", "s", "v", "g">>
    ELSE IF format = "eps" THEN <<".", "e", "p", "s">>
    ELSE <<".", "p", "n", "g">>

\* outPath.replace(/\.[^.]+$/, ext): the last dot and what follows it, when
\* at least one character follows; the path unchanged when nothing matches.
ReplaceExtension(path, ext) ==
    LET dots == {i \in 1..Len(path) : path[i] = "."} IN
    IF dots = {} THEN path
    ELSE LET last == CHOOSE i \in dots : \A j \in dots : i >= j IN
         IF last = Len(path) THEN path
         ELSE SubSeq(path, 1, last - 1) \o ext

(***************************************************************************)
(* Paths: path.join and the directories of the file system                 *)
(***************************************************************************)
\* The segments of a path: the text between its slashes.
RECURSIVE SplitPath(_)
SplitPath(path) ==
    LET sl == {i \in 1..Len(path) : path[i] = "/"} IN
    IF sl = {} THEN <<path>>
    ELSE LET k == CHOOSE i \in sl : \A j \in sl : i <= j
         IN <<SubSeq(path, 1, k - 1)>> \o SplitPath(SubSeq(path, k + 1, Len(path)))

\* path.normalize on the segments of an absolute path: '' and '.' are
\* dropped, '..' takes the segment before it away.
RECURSIVE ResolveSegments(_, _)
ResolveSegments(segs, acc) ==
    IF segs = <<>> THEN acc
    ELSE IF Head(segs) = <<>> \/ Head(segs) = <<".">> THEN ResolveSegments(Tail(segs), acc)
    ELSE IF Head(segs) = <<".", ".">>
         THEN ResolveSegments(Tail(segs),
                              IF acc = <<>> THEN acc ELSE SubSeq(acc, 1, Len(acc) - 1))
    ELSE ResolveSegments(Tail(segs), Append(acc, Head(segs)))

RECURSIVE AbsolutePath(_)
AbsolutePath(segs) ==
    IF segs = <<>> THEN <<>> ELSE <<"/">> \o Head(segs) \o AbsolutePath(Tail(segs))

\* path.join(dir, name) for an absolute dir
PathJoin(dir, name) ==
    LET segs == ResolveSegments(SplitPath(dir \o <<"/">> \o name), <<>>)
    IN IF segs = <<>> THEN <<"/">> ELSE AbsolutePath(segs)

\* The directory a path lies in, and its last segment.
Dirname(path) ==
    LET sl == {i \in 1..Len(path) : path[i] = "/"}
        last == CHOOSE i \in sl : \A j \in sl : i >= j
    IN IF sl = {} THEN <<".">> ELSE IF last = 1 THEN <<"/">> ELSE SubSeq(path, 1, last - 1)

Basename(path) ==
    LET sl == {i \in 1..Len(path) : path[i] = "/"} IN
    IF sl = {} THEN path
    ELSE SubSeq(path, (CHOOSE i \in sl : \A j \in sl : i >= j) + 1, Len(path))

\* app.getPath('temp')
TempDir == <<"/", "t">>

\* path.join(app.getPath('temp'), `barcodes_${Date.now()}`)
OutDir == TempDir \o <<"/", "b">>

\* A path below outDir.
InsideOutDir(path) ==
    /\ Len(path) > Len(OutDir) + 1
    /\ SubSeq(path, 1, Len(OutDir) + 1) = OutDir \o <<"/">>

(***************************************************************************)
(* generateBarcodeWithBwip                                                 *)
(***************************************************************************)
\* Messages the external renderer (bwip-js) reports.
RenderMsgs == {"bad check digit", "bad length"}

\* What the external renderer answers: output, or an error with a message.
RenderAnswers ==
    {[ok |-> TRUE, msg |-> ""]} \cup {[ok |-> FALSE, msg |-> m] : m \in RenderMsgs}

\* The message of the error fs.writeFileSync throws.
WriteErrMsg == "ENOENT"

NoError == [kind |-> "", format |-> "", msg |-> ""]

\* new Error(`SVG 바코드 생성 실패: ${err.message || err}`), and EPS, PNG alike.
RenderError(fmt, msg) == [kind |-> "render", format |-> fmt, msg |-> msg]

\* The reason pushed for a code that fails detectBarcodeType / validateCode.
InvalidData == [kind |-> "invalid", format |-> "", msg |-> ""]

\* A promise: pending, resolved with finalPath, rejected with err, or never settled.
Promise(st, path, err, wrote) == [st |-> st, path |-> path, err |-> err, wrote |-> wrote]

\* Mutant: the vector branch rejects with a message of its own.
VectorBranch_DropsMessage(fmt, ext, outPath, r, w) ==
    IF r.ok /\ w
    THEN Promise("resolved", ReplaceExtension(outPath, ext), NoError, TRUE)
    ELSE Promise("rejected", <<>>, RenderError(fmt, "failed"), FALSE)

\* The svg and eps branches: toSVG, (convertSVGToEPS,) writeFileSync, resolve;
\* whatever is thrown in between rejects with the format's error.
\* r is toSVG's answer, w whether writeFileSync succeeds.
VectorBranch(fmt, ext, outPath, r, w) ==
    IF ~r.ok THEN Promise("rejected", <<>>, RenderError(fmt, r.msg), FALSE)
    ELSE IF ~w THEN Promise("rejected", <<>>, RenderError(fmt, WriteErrMsg), FALSE)
    ELSE Promise("resolved", ReplaceExtension(outPath, ext), NoError, TRUE)

\* The callback handed to bwipjs.toBuffer: an error rejects, a buffer is
\* written and resolves; an exception of writeFileSync is thrown inside the
\* callback, outside the executor's try, so the promise never settles.
ToBufferCallbackResult(outPath, r, w) ==
    IF ~r.ok THEN Promise("rejected", <<>>, RenderError("PNG", r.msg), FALSE)
    ELSE IF ~w THEN Promise("hung", <<>>, NoError, FALSE)
    ELSE Promise("resolved", ReplaceExtension(outPath, <<".", "p", "n", "g">>), NoError, TRUE)

(***************************************************************************)
(* convertSVGToEPS and convertSVGRectsToPS                                 *)
(*                                                                         *)
(* The SVG markup is modelled as the regular expressions of the converter  *)
(* see it: the attributes of the root element and of each rect element,    *)
(* in document order, every attribute name at most once per element.  An   *)
(* output line is a sequence of pieces of text; the only piece that holds  *)
(* a line break is "\n" itself.                                            *)
(***************************************************************************)
Attr(name, value) == [name |-> name, value |-> value]

\* The attributes of the whole document, in document order.
RECURSIVE ConcatAll(_)
ConcatAll(seqs) == IF seqs = <<>> THEN <<>> ELSE Head(seqs) \o ConcatAll(Tail(seqs))

DocAttrs(svg) == svg.root \o ConcatAll(svg.rects)

\* svg.match(/name="(\d+)"/) and parseInt of the group: the first attribute
\* of that name in the document whose value is all digits.
MatchDigits(svg, name) ==
    LET as == DocAttrs(svg)
        hits == {i \in 1..Len(as) : as[i].name = name /\ DigitsOnly(as[i].value)}
    IN IF hits = {} THEN [found |-> FALSE, n |-> 0]
       ELSE [found |-> TRUE,
             n |-> DecimalValue(as[CHOOSE i \in hits : \A j \in hits : i <= j].value)]

\* widthMatch ? parseInt(widthMatch[1]) : 300, and height with 100
MatchOr(svg, name, default) ==
    IF MatchDigits(svg, name).found THEN MatchDigits(svg, name).n ELSE default

\* parseFloat on strings of digits and letters: the value of the leading
\* digits, NaN when there are none.
ParseFloat(str) ==
    LET nd == {i \in 1..Len(str) : str[i] \notin AsciiDigits}
        lead == IF nd = {} THEN str
                ELSE SubSeq(str, 1, (CHOOSE i \in nd : \A j \in nd : i <= j) - 1)
    IN IF lead = <<>> THEN NaN ELSE [nan |-> FALSE, n |-> DecimalValue(lead)]

\* parseFloat(match[k]) || default
FloatOr(str, default) ==
    IF ParseFloat(str).nan \/ ParseFloat(str).n = 0 THEN default ELSE ParseFloat(str).n

\* The position of the attribute called name in a rect's attributes, 0 when absent.
AttrPos(rect, name) ==
    IF \E i \in 1..Len(rect) : rect[i].name = name
    THEN CHOOSE i \in 1..Len(rect) : rect[i].name = name
    ELSE 0

AttrValue(rect, name) == rect[AttrPos(rect, name)].value

\* rectRegex: the tag has x, y, width, height and fill, in this order.
RectMatches(rect) ==
    /\ 0 < AttrPos(rect, "x")
    /\ AttrPos(rect, "x") < AttrPos(rect, "y")
    /\ AttrPos(rect, "y") < AttrPos(rect, "width")
    /\ AttrPos(rect, "width") < AttrPos(rect, "height")
    /\ AttrPos(rect, "height") < AttrPos(rect, "fill")

\* fill === '#000000' || fill === 'black' || fill === '#000'
BlackFills == {<<"#", "0", "0", "0", "0", "0", "0">>, <<"b", "l", "a", "c", "k">>,
               <<"#", "0", "0", "0">>}

IsBar(rect) == RectMatches(rect) /\ AttrValue(rect, "fill") \in BlackFills

\* `${x} ${y} ${width} ${height} rectfill`
RectCommand(rect) ==
    << ToString(FloatOr(AttrValue(rect, "x"), 0)), " ",
       ToString(FloatOr(AttrValue(rect, "y"), 0)), " ",
       ToString(FloatOr(AttrValue(rect, "width"), 1)), " ",
       ToString(FloatOr(AttrValue(rect, "height"), 1)), " rectfill" >>

RectfillDef ==
    <<"/rectfill { 4 2 roll moveto 1 index 0 rlineto 0 exch rlineto neg 0 rlineto closepath fill } def">>

convertSVGRectsToPS(svg) ==
    LET bars == SelectSeq(svg.rects, IsBar)
        commands == [k \in 1..Len(bars) |-> RectCommand(bars[k])]
    IN IF Len(commands) > 0
       THEN <<RectfillDef, <<"% Define rectfill function">>>> \o commands
       ELSE commands

\* lines.join('\n')
RECURSIVE JoinLines(_)
JoinLines(lines) ==
    IF lines = <<>> THEN <<>>
    ELSE IF Len(lines) = 1 THEN lines[1]
    ELSE lines[1] \o <<"\n">> \o JoinLines(Tail(lines))

EpsHeader == <<"%!PS-Adobe-3.0 EPSF-3.0">>
EpsProlog(svg, code) ==
    << <<"%%Title: Barcode ">> \o code,
       <<"%%Creator: Barcode Batch Generator">>,
       <<"%%BoundingBox: 0 0 ", ToString(MatchOr(svg, "width", 300)), " ",
         ToString(MatchOr(svg, "height", 100))>>,
       <<"%%EndComments">>,
       <<>>,
       <<"/Times-Roman findfont 12 scalefont setfont">>,
       <<"0 setgray">>,
       <<>>,
       <<"% Barcode generation from SVG">>,
       <<"% This is a simplified EPS conversion">>,
       <<"% Original barcode: ">> \o code,
       <<>> >>
EpsTrailer == << <<>>, <<"showpage">>, <<"%%EOF">> >>

\* Mutant: the rectangle commands are put in front of the header.
convertSVGToEPS_RectsFirst(svg, code) ==
    JoinLines(convertSVGRectsToPS(svg) \o <<EpsHeader>> \o EpsProlog(svg, code) \o EpsTrailer)

convertSVGToEPS(svg, code) ==
    JoinLines(<<EpsHeader>> \o EpsProlog(svg, code) \o convertSVGRectsToPS(svg) \o EpsTrailer)

NoSvg == [root |-> <<>>, rects |-> <<>>]

ConvIdle == [phase |-> "idle", svg |-> NoSvg, code |-> <<>>, out |-> <<>>]

\* The /preview-barcode handler before a request.
PreviewIdle ==
    [phase |-> "idle", code |-> [kind |-> "absent", s |-> <<>>], fileFormat |-> Undefined,
     now |-> <<>>, cleanCode |-> <<>>, type |-> Null, outPath |-> <<>>,
     tempFiles |-> {}, res |-> [status |-> 0, body |-> "none"]]

\* The handlers of SpecDirs.
Batches == {1, 2}

NoBatch == [pc |-> "idle", code |-> <<>>, outDir |-> 0, name |-> <<>>, status |-> 0]

\* No request in SpecDirs: the clock is not read and the temp directory is empty.
MultiIdle == [clock |-> 0, dirs |-> {}, files |-> {}, batch |-> [b \in Batches |-> NoBatch]]

OthersIdle ==
    /\ conv = ConvIdle
    /\ preview = PreviewIdle
    /\ multi = MultiIdle

(***************************************************************************)
(* POST /generate-batch: state                                             *)
(***************************************************************************)
MaxBatch == 3

\* Raw codes a request may carry: blank, too short, 14 digits with
\* surrounding blanks, 12 digits with a blank inside.
RawPool ==
    { <<" ", "\t">>,
      <<"1", "2", "3">>,
      <<" ">> \o Digits(14) \o <<" ">>,
      [i \in 1..13 |-> IF i = 7 THEN " " ELSE DigitAt(i)] }

RawLists == UNION {[1..n -> RawPool] : n \in 0..MaxBatch}

\* req.body.barcodeNumbers: absent, something that is not an array, or an array.
BarcodeNumbersInputs ==
    {[kind |-> "absent", items |-> <<>>], [kind |-> "notArray", items |-> <<>>]}
    \cup {[kind |-> "array", items |-> l] : l \in RawLists}

FileFormatInputs == {Undefined, "svg", "eps"}

NoPrefix == [defined |-> FALSE, s |-> <<>>]

\* Requests that leave heightMM, widthMM and filenamePrefix out.
Requests ==
    [barcodeNumbers : BarcodeNumbersInputs, fileFormat : FileFormatInputs,
     heightMM : {JsUndefined}, widthMM : {JsUndefined}, filenamePrefix : {NoPrefix}]

\* No call of generateBarcodeWithBwip yet.
NoRenderRequest == [heightMM |-> 0, widthMM |-> 0]
NoBwipOptions == [scale |-> 0, heightTimes3 |-> 0]

NoItem == [st |-> "unmapped", answer |-> [ok |-> TRUE, msg |-> ""], writeOk |-> TRUE,
           err |-> NoError, filename |-> <<>>, outPath |-> <<>>, path |-> <<>>,
           wrote |-> FALSE, pushes |-> 0,
           request |-> NoRenderRequest, bwipOptions |-> NoBwipOptions]

NoCalls == [classify |-> 0, validate |-> 0, primary |-> 0, fallback |-> 0]

\* starts: how many times a response has been started on res.
NoResponse == [status |-> 0, body |-> "none", details |-> <<>>, zipHeaders |-> FALSE,
               starts |-> 0]

NoReport == [present |-> FALSE, successCount |-> 0, errorCount |-> 0, errors |-> <<>>,
             fileFormat |-> "", heightMM |-> 0, widthMM |-> 0, filenamePrefix |-> <<>>]

\* entries: what archive.file queued; consumed: how many queue tasks the
\* archiver has worked off; written: the entry names written to the stream.
\* queue: the tasks in the order they were queued; queuedAtFinalize: how many
\* tasks were queued when finalize was called.
NoArchive == [created |-> FALSE, entries |-> <<>>, report |-> NoReport,
              queue |-> <<>>, queuedAtFinalize |-> 0,
              finalizeCalled |-> FALSE, consumed |-> 0, written |-> <<>>,
              outcome |-> "none"]

\* archive.append(..., { name: 'report.json' })
ReportName == <<"r", "e", "p", "o", "r", "t", ".", "j", "s", "o", "n">>

BatchInitWith(r) ==
    /\ req = r
    /\ pc = "received"
    /\ dirExists = FALSE
    /\ files = {}
    /\ codes = <<>>
    /\ item = <<>>
    /\ mapIdx = 1
    /\ microq = <<>>
    /\ successfulFiles = <<>>
    /\ failedCodes = <<>>
    /\ calls = NoCalls
    /\ res = NoResponse
    /\ archive = NoArchive

PureIdle ==
    /\ pcode = <<>>
    /\ ptype = ""
    /\ detected = "unset"
    /\ valid = <<>>
    /\ OthersIdle

Init ==
    /\ PureIdle
    /\ \E r \in Requests : BatchInitWith(r)

(***************************************************************************)
(* POST /generate-batch: the handler                                       *)
(***************************************************************************)
N == Len(codes)

SetItem(i, rec) == [item EXCEPT ![i] = rec]

\* fs.mkdirSync(outDir, { recursive: true })
CreateOutDir ==
    /\ pc = "received"
    /\ dirExists' = TRUE
    /\ pc' = "created"
    /\ UNCHANGED <<pvars, req, files, codes, item, mapIdx, microq, successfulFiles,
                   failedCodes, calls, res, archive>>

\* !Array.isArray(barcodeNumbers) || barcodeNumbers.length === 0
NotProvided(bn) == bn.kind # "array" \/ Len(bn.items) = 0

\* Mutant: the check of the filtered list is missing.
NoValidCodes_Unchecked(cs) == FALSE

\* codes.length === 0
NoValidCodes(cs) == Len(cs) = 0

\* The finally block: fs.rmSync(outDir, { recursive: true, force: true })
RemoveOutDir ==
    /\ dirExists' = FALSE
    /\ files' = {f \in files : ~InsideOutDir(f)}

\* The input checks.  A failed check answers 400 and returns; the finally
\* block runs before the handler ends.
InputChecks ==
    /\ pc = "created"
    /\ LET bn == req.barcodeNumbers
           cs == IF bn.kind = "array" THEN NormalizeCodes(bn.items) ELSE <<>>
       IN IF NotProvided(bn)
          THEN /\ res' = [res EXCEPT !.status = 400, !.body = "notProvided",
                                          !.starts = @ + 1]
               /\ RemoveOutDir
               /\ pc' = "done"
               /\ UNCHANGED <<codes, item>>
          ELSE IF NoValidCodes(cs)
          THEN /\ res' = [res EXCEPT !.status = 400, !.body = "noValidCodes",
                                          !.starts = @ + 1]
               /\ RemoveOutDir
               /\ pc' = "done"
               /\ UNCHANGED <<codes, item>>
          ELSE /\ codes' = cs
               /\ item' = [i \in 1..Len(cs) |-> NoItem]
               /\ pc' = "mapping"
               /\ UNCHANGED <<res, dirExists, files>>
    /\ UNCHANGED <<pvars, req, mapIdx, microq, successfulFiles, failedCodes, calls, archive>>

\* `${filenamePrefix || ''}${code}${extension}`
Filename(code, format) == PrefixOr(req.filenamePrefix) \o code \o Extension(format)

\* generateBarcodeWithBwip({ code, type, heightMM: h, widthMM: w, ... })
RenderRequest ==
    [heightMM |-> NumberOr(req.heightMM, 32), widthMM |-> NumberOr(req.widthMM, 2)]

Max(a, b) == IF a >= b THEN a ELSE b

\* scale: Math.max(3, widthMM), height: Math.max(20, heightMM / 3); the
\* height is kept as three times its value, which is Math.max(60, heightMM).
BwipOptions(rr) ==
    [scale |-> Max(3, rr.widthMM), heightTimes3 |-> Max(60, rr.heightMM)]

\* The directories writeFileSync finds: the root, the temp directory, and
\* outDir while it exists.
ExistingDirs == {<<"/">>, TempDir} \cup (IF dirExists THEN {OutDir} ELSE {})

\* writeFileSync(finalPath, ...) can succeed: the directory of finalPath exists.
CanWrite(finalPath) == Dirname(finalPath) \in ExistingDirs

\* The synchronous part of the async callback codes.map calls for item
\* mapIdx: classify and validate, then either the failure record or the call
\* of generateBarcodeWithBwip, whose executor runs before the await.
MapItem ==
    /\ pc = "mapping"
    /\ mapIdx <= N
    /\ LET i == mapIdx
           rawCode == codes[i]
           code == StripWhiteSpace(rawCode)
           type == detectBarcodeType(code)
           format == Format(req.fileFormat)
           filename == Filename(code, format)
           outPath == PathJoin(OutDir, filename)
       IN
       /\ mapIdx' = i + 1
       /\ IF type = Null \/ ~validateCode(code, type)
          THEN /\ failedCodes' = Append(failedCodes, [code |-> rawCode, reason |-> InvalidData])
               /\ item' = SetItem(i, [item[i] EXCEPT !.st = "invalid", !.pushes = @ + 1])
               /\ calls' = [calls EXCEPT !.classify = @ + 1,
                                         !.validate = @ + (IF type = Null THEN 0 ELSE 1)]
               /\ UNCHANGED <<files, microq>>
          ELSE /\ calls' = [calls EXCEPT !.classify = @ + 1, !.validate = @ + 1,
                                         !.primary = @ + 1]
               /\ failedCodes' = failedCodes
               /\ IF format \in {"svg", "eps"}
                  THEN \E r \in RenderAnswers, w \in BOOLEAN :
                         /\ ~r.ok => w
                         /\ LET p == IF format = "svg"
                                     THEN VectorBranch("SVG", Extension("svg"), outPath, r, w)
                                     ELSE VectorBranch("EPS", Extension("eps"), outPath, r, w)
                            IN /\ p.wrote => CanWrite(p.path)
                               /\ item' = SetItem(i, [item[i] EXCEPT
                                        !.st = p.st, !.answer = r, !.writeOk = w,
                                        !.err = p.err, !.path = p.path, !.wrote = p.wrote,
                                        !.filename = filename, !.outPath = outPath,
                                        !.request = RenderRequest,
                                        !.bwipOptions = BwipOptions(RenderRequest)])
                               /\ files' = IF p.wrote THEN files \cup {p.path} ELSE files
                               /\ microq' = Append(microq, i)
                  ELSE \* bwipjs.toBuffer(bwipOptions, callback): the callback
                       \* runs later, or at once when the library reports an
                       \* error synchronously.
                       \/ /\ item' = SetItem(i, [item[i] EXCEPT !.st = "pending",
                                                                !.filename = filename,
                                                                !.outPath = outPath,
                                                                !.request = RenderRequest,
                                                                !.bwipOptions =
                                                                    BwipOptions(RenderRequest)])
                          /\ UNCHANGED <<files, microq>>
                       \/ \E r \in RenderAnswers :
                            /\ ~r.ok
                            /\ LET p == ToBufferCallbackResult(outPath, r, TRUE)
                               IN /\ item' = SetItem(i, [item[i] EXCEPT
                                           !.st = p.st, !.answer = r, !.err = p.err,
                                           !.filename = filename, !.outPath = outPath,
                                           !.request = RenderRequest,
                                           !.bwipOptions = BwipOptions(RenderRequest)])
                                  /\ microq' = Append(microq, i)
                                  /\ UNCHANGED files
    /\ UNCHANGED <<pvars, req, pc, dirExists, codes, successfulFiles, res, archive>>

\* Mutant: callbacks and continuations run while codes.map is still calling
\* the async callback for later items.
MapFinished_Interleaved == TRUE

\* codes.map has called the async callback for every item: the synchronous
\* part of the handler has run up to await Promise.all, and only then does
\* the event loop run callbacks and await continuations.
MapFinished == mapIdx > N

\* bwip-js calls the callback of item i; completions come in any order, each
\* after the microtasks of the one before have run.
ToBufferCallback(i) ==
    /\ pc = "mapping"
    /\ MapFinished
    /\ microq = <<>>
    /\ item[i].st = "pending"
    /\ \E r \in RenderAnswers, w \in BOOLEAN :
         /\ ~r.ok => w
         /\ LET p == ToBufferCallbackResult(item[i].outPath, r, w)
            IN /\ p.wrote => CanWrite(p.path)
               /\ item' = SetItem(i, [item[i] EXCEPT
                        !.st = p.st, !.answer = r, !.writeOk = w,
                        !.err = p.err, !.path = p.path, !.wrote = p.wrote])
               /\ files' = IF p.wrote THEN files \cup {p.path} ELSE files
               /\ microq' = IF p.st = "hung" THEN microq ELSE Append(microq, i)
    /\ UNCHANGED <<pvars, req, pc, dirExists, codes, mapIdx, successfulFiles, failedCodes,
                   calls, res, archive>>

\* Mutant: a filename already recorded is not recorded again.
PushSuccess_Dedup(i) ==
    IF \E k \in 1..Len(successfulFiles) : successfulFiles[k] = item[i].filename
    THEN successfulFiles
    ELSE Append(successfulFiles, item[i].filename)

\* successfulFiles.push(filename)
PushSuccess(i) == Append(successfulFiles, item[i].filename)

\* catch (e) { failedCodes.push({ code: rawCode, reason: e.message }) }
CatchRecord(i) == Append(failedCodes, [code |-> codes[i], reason |-> item[i].err])

\* The rest of the async callback after the await, in microtask order.
Continuation ==
    /\ pc = "mapping"
    /\ MapFinished
    /\ microq # <<>>
    /\ LET i == Head(microq) IN
       /\ microq' = Tail(microq)
       /\ IF item[i].st = "resolved"
          THEN /\ successfulFiles' = PushSuccess(i)
               /\ item' = SetItem(i, [item[i] EXCEPT !.st = "success", !.pushes = @ + 1])
               /\ UNCHANGED failedCodes
          ELSE /\ failedCodes' = CatchRecord(i)
               /\ item' = SetItem(i, [item[i] EXCEPT !.st = "failure", !.pushes = @ + 1])
               /\ UNCHANGED successfulFiles
    /\ UNCHANGED <<pvars, req, pc, dirExists, files, codes, mapIdx, calls, res, archive>>

Settled(i) == item[i].st \in {"invalid", "success", "failure"}

\* Mutant: the barrier gives way as soon as one item has failed (fail-fast).
AllSettled_FailFast ==
    /\ mapIdx > N
    /\ \/ \A i \in 1..N : Settled(i)
       \/ \E i \in 1..N : item[i].st = "failure"

\* await Promise.all(...): every callback's promise has resolved.
AllSettled == mapIdx > N /\ \A i \in 1..N : Settled(i)

\* Mutant: the zero-success check is missing.
NothingProduced_Unchecked == FALSE

\* successfulFiles.length === 0
NothingProduced == Len(successfulFiles) = 0

\* Mutant: the report counts the codes submitted as errors.
Report_WrongCount ==
    [present |-> TRUE, successCount |-> Len(successfulFiles),
     errorCount |-> N, errors |-> failedCodes,
     fileFormat |-> Format(req.fileFormat),
     heightMM |-> NumberOr(req.heightMM, 32),
     widthMM |-> NumberOr(req.widthMM, 2),
     filenamePrefix |-> PrefixOr(req.filenamePrefix)]

\* const report = { ..., options, successCount, errorCount, errors }
Report ==
    [present |-> TRUE, successCount |-> Len(successfulFiles),
     errorCount |-> Len(failedCodes), errors |-> failedCodes,
     fileFormat |-> Format(req.fileFormat),
     heightMM |-> NumberOr(req.heightMM, 32),
     widthMM |-> NumberOr(req.widthMM, 2),
     filenamePrefix |-> PrefixOr(req.filenamePrefix)]

\* archive.file(path.join(outDir, filename), { name: filename })
FileTask(filename) == [kind |-> "file", name |-> filename]

\* archive.append(JSON.stringify(report, null, 2), { name: 'report.json' })
ReportTask == [kind |-> "append", name |-> ReportName]

\* Mutant: report.json is queued before the files.
QueueTasks_ReportFirst(names) ==
    <<ReportTask>> \o [k \in 1..Len(names) |-> FileTask(names[k])]

\* for (const filename of successfulFiles) archive.file(...); archive.append(report)
QueueTasks(names) ==
    [k \in 1..Len(names) |-> FileTask(names[k])] \o <<ReportTask>>

\* After the barrier: the all-failed answer (and the finally block), or the
\* archive: headers, pipe, one entry per successful file, report.json, and the
\* call of finalize, on which the handler awaits.
Join ==
    /\ pc = "mapping"
    /\ AllSettled
    /\ IF NothingProduced
       THEN /\ res' = [res EXCEPT !.status = 400, !.body = "nothingProduced",
                                  !.details = failedCodes, !.starts = @ + 1]
            /\ RemoveOutDir
            /\ pc' = "done"
            /\ UNCHANGED archive
       ELSE /\ res' = [res EXCEPT !.zipHeaders = TRUE]
            /\ archive' = [archive EXCEPT !.created = TRUE,
                                          !.entries = successfulFiles,
                                          !.report = Report,
                                          !.queue = QueueTasks(successfulFiles),
                                          !.queuedAtFinalize = Len(QueueTasks(successfulFiles)),
                                          !.finalizeCalled = TRUE]
            /\ pc' = "finalizing"
            /\ UNCHANGED <<dirExists, files>>
    /\ UNCHANGED <<pvars, req, codes, item, mapIdx, microq, successfulFiles, failedCodes, calls>>

\* The archiver works through its queue in order, writing to the piped
\* response.  A queued file is read from outDir when its turn comes; a file
\* that is not there is left out.
ArchiveProcess ==
    /\ pc = "finalizing"
    /\ archive.consumed < Len(archive.queue)
    /\ LET k == archive.consumed + 1 IN
       archive' = [archive EXCEPT
           !.consumed = k,
           !.written = IF archive.queue[k].kind = "append"
                            \/ PathJoin(OutDir, archive.queue[k].name) \in files
                       THEN Append(@, archive.queue[k].name)
                       ELSE @]
    /\ res' = [res EXCEPT !.status = 200, !.body = "zip",
                          !.starts = IF res.body = "none" THEN @ + 1 ELSE @]
    /\ UNCHANGED <<pvars, req, pc, dirExists, files, codes, item, mapIdx, microq,
                   successfulFiles, failedCodes, calls>>

\* archive.finalize() resolves; the finally block removes outDir.
FinalizeResolve ==
    /\ pc = "finalizing"
    /\ archive.consumed = Len(archive.queue)
    /\ archive' = [archive EXCEPT !.outcome = "finalized"]
    /\ RemoveOutDir
    /\ pc' = "done"
    /\ UNCHANGED <<pvars, req, codes, item, mapIdx, microq, successfulFiles, failedCodes,
                   calls, res>>

\* archive.finalize() rejects: the catch block answers 500 (which the
\* response accepts only while nothing has been written to it), then the
\* finally block removes outDir.
FinalizeReject ==
    /\ pc = "finalizing"
    /\ archive' = [archive EXCEPT !.outcome = "failed"]
    /\ res' = IF res.body = "none"
              THEN [res EXCEPT !.status = 500, !.body = "internalError", !.starts = @ + 1]
              ELSE res
    /\ RemoveOutDir
    /\ pc' = "done"
    /\ UNCHANGED <<pvars, req, codes, item, mapIdx, microq, successfulFiles, failedCodes, calls>>

\* The archiver emits 'error' and the listener of line 324 throws inside the
\* emitter, outside the handler's try: an uncaught exception.  When the
\* emitter thereby never rejects finalize(), the handler stays at its await:
\* no catch, no finally.
ArchiveErrorThrown ==
    /\ pc = "finalizing"
    /\ archive' = [archive EXCEPT !.outcome = "thrown"]
    /\ pc' = "stuck"
    /\ UNCHANGED <<pvars, req, dirExists, files, codes, item, mapIdx, microq,
                   successfulFiles, failedCodes, calls, res>>

Next ==
    \/ CreateOutDir
    \/ InputChecks
    \/ MapItem
    \/ \E i \in 1..N : ToBufferCallback(i)
    \/ Continuation
    \/ Join
    \/ ArchiveProcess
    \/ FinalizeResolve
    \/ FinalizeReject
    \/ ArchiveErrorThrown

Spec == Init /\ [][Next]_vars

(***************************************************************************)
(* SpecOptions: the batch handler on requests that carry options           *)
(***************************************************************************)
MaxOptBatch == 1

\* A code that fails validation and a 14-digit code.
OptPool == {<<"1", "2", "3">>, Digits(14)}

OptLists == UNION {[1..n -> OptPool] : n \in 0..MaxOptBatch}

\* fileFormat: absent, '', the three formats of the form's select, and a value
\* an HTTP client may send in their place.
OptFileFormats == {Undefined, "", "png", "svg", "eps", "jpg"}

OptHeights == {JsUndefined, JsNumber(0), JsNumber(50), JsNumber(-5), JsString(<<"a">>),
               JsString(<<"4", "0">>)}

OptWidths == {JsUndefined, JsNumber(3), JsNumber(-1)}

\* filenamePrefix: absent, '', a plain prefix, and prefixes with a directory
\* part: the parent directory, a directory that is left again, a
\* subdirectory that does not exist.
OptPrefixes ==
    {NoPrefix} \cup
    {[defined |-> TRUE, s |-> str] :
        str \in {<<>>, <<"a", "_">>, <<".", ".", "/">>, <<"x", "/", ".", ".", "/">>,
                 <<"s", "/">>}}

OptionRequests ==
    [barcodeNumbers : {[kind |-> "array", items |-> l] : l \in OptLists},
     fileFormat : OptFileFormats, heightMM : OptHeights, widthMM : OptWidths,
     filenamePrefix : OptPrefixes]

InitOptions ==
    /\ PureIdle
    /\ \E r \in OptionRequests : BatchInitWith(r)

SpecOptions == InitOptions /\ [][Next]_vars

(***************************************************************************)
(* SpecOrder: the batch handler on lists with two different invalid codes  *)
(***************************************************************************)
\* Two codes that fail validation and a 14-digit code.
OrderPool == {<<"1", "2", "3">>, <<"4", "5">>, Digits(14)}

OrderRequests ==
    [barcodeNumbers : {[kind |-> "array", items |-> l] :
                          l \in UNION {[1..n -> OrderPool] : n \in 0..MaxBatch}},
     fileFormat : {Undefined, "svg"},
     heightMM : {JsUndefined}, widthMM : {JsUndefined}, filenamePrefix : {NoPrefix}]

InitOrder ==
    /\ PureIdle
    /\ \E r \in OrderRequests : BatchInitWith(r)

SpecOrder == InitOrder /\ [][Next]_vars

(***************************************************************************)
(* SpecPure: classify and validate applied to bounded inputs               *)
(***************************************************************************)
MaxCodeLen == 15

NonDigits == {"a", " ", "-", "\n"}

\* Digit strings of every length up to MaxCodeLen, and the same strings with
\* one character replaced by a non-digit.
PureCodes ==
    {Digits(n) : n \in 0..MaxCodeLen}
    \cup {[i \in 1..n |-> IF i = p THEN c ELSE DigitAt(i)] :
             n \in 1..MaxCodeLen, p \in 1..MaxCodeLen, c \in NonDigits}

TypeKeys == {"itf14", "ean13", "ITF14", "code128", "", "constructor",
             "toString", "hasOwnProperty", "__defineGetter__", "__proto__"}

Supported == {"itf14", "ean13"}

\* The batch handler idle: a request that carries no codes, not yet handled.
BatchIdle == BatchInitWith([barcodeNumbers |-> [kind |-> "absent", items |-> <<>>],
                           fileFormat |-> Undefined, heightMM |-> JsUndefined,
                           widthMM |-> JsUndefined, filenamePrefix |-> NoPrefix])

PureInit ==
    /\ BatchIdle
    /\ pcode \in PureCodes
    /\ ptype \in TypeKeys
    /\ detected = "unset"
    /\ valid = <<>>
    /\ OthersIdle

Detect ==
    /\ detected = "unset"
    /\ detected' = detectBarcodeType(pcode)
    /\ UNCHANGED <<pcode, ptype, valid, ovars, bvars>>

Validate ==
    /\ valid = <<>>
    /\ valid' = <<validateCode(pcode, ptype)>>
    /\ UNCHANGED <<pcode, ptype, detected, ovars, bvars>>

PureNext == Detect \/ Validate

SpecPure == PureInit /\ [][PureNext]_vars

(***************************************************************************)
(* SpecEps: convertSVGToEPS applied to bounded markup                      *)
(***************************************************************************)
MaxRects == 2

\* rect elements: a black bar, a white rectangle, a black bar whose
\* attributes come in another order, a black bar whose numbers do not parse,
\* and a bar whose fill is spelled in another case.
RectPool ==
    { <<Attr("x", <<"1", "0">>), Attr("y", <<"0">>), Attr("width", <<"2">>),
        Attr("height", <<"5", "0">>), Attr("fill", <<"#", "0", "0", "0", "0", "0", "0">>)>>,
      <<Attr("x", <<"0">>), Attr("y", <<"0">>), Attr("width", <<"9", "0">>),
        Attr("height", <<"6", "0">>), Attr("fill", <<"#", "F", "F", "F">>)>>,
      <<Attr("fill", <<"b", "l", "a", "c", "k">>), Attr("x", <<"1">>), Attr("y", <<"2">>),
        Attr("width", <<"3">>), Attr("height", <<"4">>)>>,
      <<Attr("x", <<"a">>), Attr("y", <<>>), Attr("width", <<"3">>),
        Attr("height", <<"7", "p", "x">>), Attr("fill", <<"b", "l", "a", "c", "k">>)>>,
      <<Attr("x", <<"5">>), Attr("y", <<"6">>), Attr("width", <<"7">>),
        Attr("height", <<"8">>), Attr("fill", <<"B", "l", "a", "c", "k">>)>> }

\* Root elements: no size, a size in digits, a size the expressions pass
\* over, a height alone.
RootPool ==
    { <<>>,
      <<Attr("width", <<"1", "2", "0">>), Attr("height", <<"8", "0">>)>>,
      <<Attr("width", <<"1", "0", "0", "%">>), Attr("height", <<"a">>)>>,
      <<Attr("height", <<"8", "0">>)>> }

SvgInputs == [root : RootPool, rects : UNION {[1..n -> RectPool] : n \in 0..MaxRects}]

\* Valid codes: 12, 13 and 14 digits.
ValidCodes == {Digits(12), Digits(13), Digits(14)}

EpsInit ==
    /\ BatchIdle
    /\ pcode = <<>>
    /\ ptype = ""
    /\ detected = "unset"
    /\ valid = <<>>
    /\ preview = PreviewIdle
    /\ multi = MultiIdle
    /\ \E svg \in SvgInputs, code \in ValidCodes :
         conv = [phase |-> "ready", svg |-> svg, code |-> code, out |-> <<>>]

\* const epsContent = convertSVGToEPS(svg, code)
ConvertSVGToEPS ==
    /\ conv.phase = "ready"
    /\ conv' = [conv EXCEPT !.phase = "done", !.out = convertSVGToEPS(conv.svg, conv.code)]
    /\ UNCHANGED <<cvars, preview, multi, bvars>>

EpsNext == ConvertSVGToEPS

SpecEps == EpsInit /\ [][EpsNext]_vars

(***************************************************************************)
(* SpecPreview: POST /preview-barcode                                      *)
(***************************************************************************)
\* req.body.code: absent, a number, or a string (blank, too short, and
\* 12, 13 and 14 digits, one of them with blanks around and inside).
PreviewCodes ==
    {[kind |-> "absent", s |-> <<>>], [kind |-> "number", s |-> <<>>]}
    \cup {[kind |-> "string", s |-> c] :
             c \in {<<" ", "\t">>, <<"1", "2", "3">>, Digits(12),
                    <<" ">> \o Digits(6) \o <<" ">> \o [i \in 1..7 |-> DigitAt(i + 6)],
                    Digits(14)}}

PreviewFileFormats == {Undefined, "svg", "eps", "jpg"}

\* Values of Date.now(), in decimal.
PreviewTimes == {<<"1">>, <<"2">>}

PreviewInit ==
    /\ BatchIdle
    /\ pcode = <<>>
    /\ ptype = ""
    /\ detected = "unset"
    /\ valid = <<>>
    /\ conv = ConvIdle
    /\ multi = MultiIdle
    /\ \E c \in PreviewCodes, f \in PreviewFileFormats, t \in PreviewTimes :
         preview = [PreviewIdle EXCEPT !.phase = "received", !.code = c,
                                       !.fileFormat = f, !.now = t]

\* `preview_${cleanCode}_${Date.now()}${extension}`
PreviewFilename(cleanCode, now, format) ==
    <<"p", "r", "e", "v", "i", "e", "w", "_">> \o cleanCode \o <<"_">> \o now
        \o Extension(format)

\* catch (error) { res.status(500).json(...) }
PreviewCatch == [status |-> 500, body |-> "failed"]

\* The checks of the request: code?.trim() (a TypeError for a code that is
\* not a string, caught below), classify, validate; then the output path.
PreviewChecks ==
    /\ preview.phase = "received"
    /\ LET c == preview.code
           cleanCode == StripWhiteSpace(Trim(c.s))
           type == detectBarcodeType(cleanCode)
       IN preview' =
            IF c.kind = "number"
            THEN [preview EXCEPT !.phase = "done", !.res = PreviewCatch]
            ELSE IF c.kind = "absent" \/ Trim(c.s) = <<>>
            THEN [preview EXCEPT !.phase = "done",
                                 !.res = [status |-> 400, body |-> "noCode"]]
            ELSE IF type = Null \/ ~validateCode(cleanCode, type)
            THEN [preview EXCEPT !.phase = "done",
                                 !.res = [status |-> 400, body |-> "invalidCode"]]
            ELSE [preview EXCEPT !.phase = "rendering", !.cleanCode = cleanCode,
                                 !.type = type,
                                 !.outPath = PreviewFilename(cleanCode, preview.now,
                                                             Format(preview.fileFormat))]
    /\ UNCHANGED <<cvars, conv, multi, bvars>>

\* await generateBarcodeWithBwip({ ..., outPath, fileFormat: format }): the
\* promise resolves with the file written, rejects (caught: 500), or is
\* never settled.
PreviewRender ==
    /\ preview.phase = "rendering"
    /\ \E r \in RenderAnswers, w \in BOOLEAN :
         /\ ~r.ok => w
         /\ LET format == Format(preview.fileFormat)
                p == IF format = "svg"
                     THEN VectorBranch("SVG", Extension("svg"), preview.outPath, r, w)
                     ELSE IF format = "eps"
                     THEN VectorBranch("EPS", Extension("eps"), preview.outPath, r, w)
                     ELSE ToBufferCallbackResult(preview.outPath, r, w)
            IN preview' =
                 IF p.st = "resolved"
                 THEN [preview EXCEPT !.phase = "awaited",
                                      !.tempFiles = @ \cup {p.path}]
                 ELSE IF p.st = "rejected"
                 THEN [preview EXCEPT !.phase = "done", !.res = PreviewCatch]
                 ELSE [preview EXCEPT !.phase = "stuck"]
    /\ UNCHANGED <<cvars, conv, multi, bvars>>

\* fs.readFileSync(outPath) for svg and png (eps is not read back); an
\* exception goes to the catch block.
PreviewReadBack ==
    /\ preview.phase = "awaited"
    /\ \E readOk \in BOOLEAN :
         preview' =
           IF Format(preview.fileFormat) = "eps"
              \/ (readOk /\ preview.outPath \in preview.tempFiles)
           THEN [preview EXCEPT !.phase = "read"]
           ELSE [preview EXCEPT !.phase = "done", !.res = PreviewCatch]
    /\ UNCHANGED <<cvars, conv, multi, bvars>>

\* fs.unlinkSync(outPath), then res.json({ success: true, ... }); an
\* exception of unlinkSync goes to the catch block.
PreviewUnlink ==
    /\ preview.phase = "read"
    /\ \E unlinkOk \in BOOLEAN :
         preview' =
           IF unlinkOk /\ preview.outPath \in preview.tempFiles
           THEN [preview EXCEPT !.phase = "done",
                                !.tempFiles = @ \ {preview.outPath},
                                !.res = [status |-> 200, body |-> "image"]]
           ELSE [preview EXCEPT !.phase = "done", !.res = PreviewCatch]
    /\ UNCHANGED <<cvars, conv, multi, bvars>>

PreviewNext ==
    \/ PreviewChecks
    \/ PreviewRender
    \/ PreviewReadBack
    \/ PreviewUnlink

SpecPreview == PreviewInit /\ [][PreviewNext]_vars

(***************************************************************************)
(* Properties                                                              *)
(***************************************************************************)
\* A string with a character that is not whitespace: non-empty after trimming.
NonBlank(s) == \E j \in 1..Len(s) : s[j] \notin WhiteSpace

\* The number of entries of the request's list that are non-empty after trimming.
SubmittedCount ==
    Cardinality({i \in 1..Len(req.barcodeNumbers.items) :
                    NonBlank(req.barcodeNumbers.items[i])})

\* The handler is past the barrier (Promise.all has resolved).
Joined == pc \in {"finalizing", "done"} /\ res.body \notin {"notProvided", "noValidCodes"}

Succeeded == {i \in 1..N : item[i].st = "success"}
Failed == {i \in 1..N : item[i].st \in {"invalid", "failure"}}

\* How many records of a failure list carry the code c.
RecordsFor(list, c) == Cardinality({k \in 1..Len(list) : list[k].code = c})

\* A failure list holds exactly one record per item of the set S.
OneRecordPerItem(list, S) ==
    /\ Len(list) = Cardinality(S)
    /\ \A i \in S : RecordsFor(list, codes[i]) = Cardinality({j \in S : codes[j] = codes[i]})

FormatName == IF Format(req.fileFormat) = "svg" THEN "SVG"
              ELSE IF Format(req.fileFormat) = "eps" THEN "EPS" ELSE "PNG"

\* C1: once the fan-out is joined, every code that is non-empty after trimming
\* has produced exactly one outcome, in successes or in failures, and
\* len(successes) + len(failures) is the number of such input entries.
C1_OneOutcomePerCode ==
    Joined =>
        /\ N = SubmittedCount
        /\ \A i \in 1..N : Settled(i) /\ item[i].pushes = 1
        /\ Len(successfulFiles) = Cardinality(Succeeded)
        /\ Len(failedCodes) = Cardinality(Failed)
        /\ Len(successfulFiles) + Len(failedCodes) = SubmittedCount

C1_Witness ==
    /\ Joined
    /\ Len(successfulFiles) >= 1
    /\ Len(failedCodes) >= 1
    /\ Len(req.barcodeNumbers.items) > SubmittedCount

\* The outcome item i reaches on its own: from its code and from what the
\* renderer and the file system answered for this item, nothing else.
OwnOutcome(i) ==
    LET code == StripWhiteSpace(codes[i]) IN
    IF ~(DigitsOnly(code) /\ Len(code) \in {12, 13, 14})
    THEN [st |-> "invalid", reason |-> InvalidData]
    ELSE IF ~item[i].answer.ok
    THEN [st |-> "failure", reason |-> RenderError(FormatName, item[i].answer.msg)]
    ELSE IF ~item[i].writeOk
    THEN [st |-> "failure", reason |-> RenderError(FormatName, WriteErrMsg)]
    ELSE [st |-> "success", reason |-> NoError]

\* C2: a render failure of one item neither cancels nor changes another item:
\* every item that has an outcome has the outcome it reaches on its own, and
\* the batch ends only when every item has one.
C2_Isolation ==
    \A i \in 1..N :
        /\ Settled(i) =>
              /\ item[i].st = OwnOutcome(i).st
              /\ item[i].st # "success" =>
                    \E k \in 1..Len(failedCodes) :
                        failedCodes[k] = [code |-> codes[i], reason |-> OwnOutcome(i).reason]
              /\ item[i].st = "success" =>
                    \E k \in 1..Len(successfulFiles) : successfulFiles[k] = item[i].filename
        /\ pc \in {"finalizing", "done"} => Settled(i)

C2_Witness ==
    /\ pc = "finalizing"
    /\ Format(req.fileFormat) = "png"
    /\ \E i, j \in 1..N :
          /\ i < j
          /\ item[i].st = "failure"
          /\ item[j].st = "success"
          /\ successfulFiles # <<>>
          /\ failedCodes # <<>>

\* C3: when every item failed, the answer is the structured error with one
\* failure record per non-empty input code, and no archive is started.
C3_AllFailedNoArchive ==
    (Joined /\ Len(successfulFiles) = 0) =>
        /\ pc = "done"
        /\ res.status = 400
        /\ res.body = "nothingProduced"
        /\ Len(res.details) = SubmittedCount
        /\ OneRecordPerItem(res.details, 1..N)
        /\ ~res.zipHeaders
        /\ ~archive.created
        /\ archive.entries = <<>>
        /\ ~archive.report.present

C3_Witness ==
    /\ pc = "done"
    /\ res.body = "nothingProduced"
    /\ \E i, j \in 1..N : item[i].st = "invalid" /\ item[j].st = "failure"

\* C4: with at least one success an archive is started even if other items
\* failed, and its report counts the successes and the failures, which add up
\* to the non-empty codes submitted, with one error record per failed code.
C4_ReportCounts ==
    (Joined /\ Len(successfulFiles) >= 1) =>
        /\ archive.created
        /\ archive.finalizeCalled
        /\ res.zipHeaders
        /\ archive.entries = successfulFiles
        /\ archive.report.present
        /\ archive.report.successCount = Cardinality(Succeeded)
        /\ archive.report.errorCount = Cardinality(Failed)
        /\ archive.report.successCount + archive.report.errorCount = SubmittedCount
        /\ OneRecordPerItem(archive.report.errors, Failed)

C4_Witness ==
    /\ pc = "done"
    /\ archive.outcome = "finalized"
    /\ archive.report.successCount >= 1
    /\ archive.report.errorCount >= 2

\* The request's list is absent, not a list, empty, or blank throughout.
BadInput ==
    \/ req.barcodeNumbers.kind # "array"
    \/ \A i \in 1..Len(req.barcodeNumbers.items) : ~NonBlank(req.barcodeNumbers.items[i])

\* C5: a request without a usable code list is answered with an input error
\* and nothing is classified, validated, rendered or archived.
C5_InputError ==
    BadInput =>
        /\ calls = NoCalls
        /\ item = <<>>
        /\ ~archive.created
        /\ ~res.zipHeaders
        /\ pc \notin {"mapping", "finalizing"}
        /\ pc = "done" => res.status = 400 /\ res.body \in {"notProvided", "noValidCodes"}

C5_Witness ==
    /\ pc = "done"
    /\ res.body = "noValidCodes"
    /\ Len(req.barcodeNumbers.items) >= 2

\* C6: classify returns ITF14 exactly for 14 ASCII digits, EAN13 exactly for
\* 12 or 13 ASCII digits, and None for every other string.
C6_ClassifyTotal ==
    detected # "unset" =>
        LET allDigits == \A i \in 1..Len(pcode) : pcode[i] \in AsciiDigits IN
        /\ detected \in {"itf14", "ean13", Null}
        /\ detected = "itf14" <=> (allDigits /\ Len(pcode) = 14)
        /\ detected = "ean13" <=> (allDigits /\ (Len(pcode) = 12 \/ Len(pcode) = 13))

C6_Witness ==
    /\ detected = Null
    /\ Len(pcode) = 14
    /\ pcode[14] \notin AsciiDigits

\* C7: validate(code, s) is true only if classify(code) = s; a 14-digit code
\* is invalid as EAN13, a 12- or 13-digit code is invalid as ITF14.
C7_ValidateAgrees ==
    (valid # <<>> /\ detected # "unset" /\ ptype \in Supported) =>
        /\ valid[1] => detected = ptype
        /\ (Len(pcode) = 14 /\ ptype = "ean13") => ~valid[1]
        /\ (Len(pcode) \in {12, 13} /\ ptype = "itf14") => ~valid[1]

C7_Witness ==
    /\ valid = <<FALSE>>
    /\ ptype = "ean13"
    /\ detected = "itf14"

\* C8: for a symbology key that is not an entry of the table, validate
\* returns false, also when the key names an inherited property of the table.
C8_UnknownKeyInvalid ==
    (valid # <<>> /\ ptype \notin Supported) => valid = <<FALSE>>

\* C9: a PNG item is recorded as a Failure on the primary renderer's error
\* only after one attempt with the fallback renderer.
C9_PngFallbackTried ==
    \A i \in 1..N :
        (Format(req.fileFormat) = "png" /\ item[i].st = "failure" /\ ~item[i].answer.ok)
            => calls.fallback >= 1

\* C10: when the vector path fails for an SVG or EPS request, the render
\* fails with an error naming the format and carrying the renderer's message,
\* no fallback is tried, no file is written for the item, and the batch
\* records the item as a Failure with that message as its reason.
C10_VectorFailure ==
    \A i \in 1..N :
        (/\ Format(req.fileFormat) \in {"svg", "eps"}
         /\ item[i].st \notin {"unmapped", "invalid"}
         /\ ~item[i].answer.ok) =>
            /\ item[i].st \in {"rejected", "failure"}
            /\ item[i].err = [kind |-> "render", format |-> FormatName,
                              msg |-> item[i].answer.msg]
            /\ ~item[i].wrote
            /\ calls.fallback = 0
            /\ item[i].st = "failure" =>
                  \E k \in 1..Len(failedCodes) :
                      failedCodes[k] = [code |-> codes[i], reason |-> item[i].err]
            /\ Joined => item[i].st = "failure"

C10_Witness ==
    /\ Joined
    /\ req.fileFormat = "eps"
    /\ \E i, j \in 1..N :
          /\ item[i].st = "failure" /\ item[i].answer.msg = "bad length"
          /\ item[j].st = "success" /\ item[j].wrote

\* What extracting the archive into an empty directory leaves there: one file
\* per distinct entry name.
ExtractedNames == {archive.written[k] : k \in 1..Len(archive.written)}

\* C11: extracting a generated archive yields one file per Success plus one
\* report.json, and report.json.successCount is the number of the other files,
\* also when two successes carry the same filename.
C11_RoundTrip ==
    archive.outcome = "finalized" =>
        /\ ReportName \in ExtractedNames
        /\ Cardinality(ExtractedNames \ {ReportName}) = Len(successfulFiles)
        /\ archive.report.successCount = Cardinality(ExtractedNames \ {ReportName})

\* C12: the same valid code k times gives k Success outcomes, k entries in
\* successes and successCount = k, and no file of the batch is written once
\* the archive has been given its entries.
C12_DuplicatesKept ==
    /\ [](Joined =>
            \A i \in Succeeded :
                /\ Cardinality({k \in 1..Len(successfulFiles) :
                                    successfulFiles[k] = item[i].filename})
                     = Cardinality({j \in Succeeded : codes[j] = codes[i]})
                /\ archive.created => archive.report.successCount = Len(successfulFiles))
    /\ [][archive.created =>
            /\ files' \subseteq files
            /\ \A i \in 1..N : item'[i].wrote = item[i].wrote]_vars

C12_Witness ==
    /\ archive.outcome = "finalized"
    /\ \E i, j \in Succeeded : i # j /\ codes[i] = codes[j]
    /\ Len(successfulFiles) >= 2
    /\ archive.report.successCount = Len(successfulFiles)

\* C15: a failure of archive finalization or of the archive writer reaches the
\* handler, the caller gets the internal-error answer, and nothing of a
\* partial archive has been sent.
C15_AssemblyErrorPropagated ==
    archive.outcome \in {"failed", "thrown"} =>
        /\ pc = "done"
        /\ res.status = 500
        /\ res.body = "internalError"
        /\ archive.written = <<>>

\* C16: when the handler has finished, on whichever exit path (input error,
\* all items failed, archive produced, assembly error), outDir and every
\* file the batch wrote are gone.
C16_OutDirRemoved ==
    (pc = "done" \/ archive.outcome \in {"failed", "thrown"}) =>
        (~dirExists /\ files = {})

\* C19: a render whose call of the external renderer has completed is
\* settled, resolved or rejected, also when writing the output file failed
\* (so that the barrier is passed and the batch answers).
C19_RenderSettles ==
    \A i \in 1..N : item[i].st # "hung"

\* The characters of a format name.
FormatChars(f) == CASE f = "png" -> <<"p", "n", "g">>
                    [] f = "svg" -> <<"s", "v", "g">>
                    [] f = "eps" -> <<"e", "p", "s">>
                    [] f = "jpg" -> <<"j", "p", "g">>
                    [] OTHER -> <<>>

\* The name ends with a dot and the characters of format f.
HasExtension(name, f) ==
    /\ Len(name) > Len(FormatChars(f))
    /\ SubSeq(name, Len(name) - Len(FormatChars(f)), Len(name)) = <<".">> \o FormatChars(f)

\* C14: the options of report.json are the options applied: heightMM 32 and
\* widthMM 2 when the request omits them, filenamePrefix "" when omitted,
\* fileFormat one of png, svg, eps (png when omitted) and the extension of
\* every file queued into the archive.
C14_ReportOptions ==
    archive.created =>
        /\ req.heightMM = JsUndefined => archive.report.heightMM = 32
        /\ req.widthMM = JsUndefined => archive.report.widthMM = 2
        /\ ~req.filenamePrefix.defined => archive.report.filenamePrefix = <<>>
        /\ req.fileFormat = Undefined => archive.report.fileFormat = "png"
        /\ archive.report.fileFormat \in {"png", "svg", "eps"}
        /\ \A k \in 1..Len(archive.entries) :
               HasExtension(archive.entries[k], archive.report.fileFormat)

(***************************************************************************)
(* SpecDirs: two POST /generate-batch requests in progress at once         *)
(*                                                                         *)
(* Each request carries one valid code and no options.  The handlers run   *)
(* on one event loop: a step of one handler is the code between two of its *)
(* awaits.  multi.dirs are the directories barcodes_<t> that exist in the  *)
(* temp directory, multi.files the pairs <<t, name>> of files in them.     *)
(***************************************************************************)
MaxClock == 2

DirCodes == {Digits(12), Digits(14)}

DirsInit ==
    /\ BatchIdle
    /\ pcode = <<>>
    /\ ptype = ""
    /\ detected = "unset"
    /\ valid = <<>>
    /\ conv = ConvIdle
    /\ preview = PreviewIdle
    /\ \E cs \in [Batches -> DirCodes] :
         multi = [MultiIdle EXCEPT
                    !.clock = 1,
                    !.batch = [b \in Batches |-> [NoBatch EXCEPT !.pc = "waiting",
                                                                 !.code = cs[b]]]]

\* Date.now() advances between two steps of the handlers, or it does not.
Tick ==
    /\ multi.clock > 0
    /\ multi.clock < MaxClock
    /\ multi' = [multi EXCEPT !.clock = @ + 1]
    /\ UNCHANGED <<cvars, conv, preview, bvars>>

\* The finally block of handler b: rmSync(outDir, { recursive: true, force: true })
RemoveDir(m, b) ==
    [m EXCEPT !.dirs = @ \ {m.batch[b].outDir},
              !.files = {f \in @ : f[1] # m.batch[b].outDir}]

\* outDir = barcodes_${Date.now()}; mkdirSync unless the directory exists.
BatchStart(b) ==
    /\ multi.batch[b].pc = "waiting"
    /\ multi' = [multi EXCEPT !.dirs = @ \cup {multi.clock},
                              !.batch[b].outDir = multi.clock,
                              !.batch[b].name = multi.batch[b].code \o Extension("png"),
                              !.batch[b].pc = "mapping"]
    /\ UNCHANGED <<cvars, conv, preview, bvars>>

\* The render of the code settles: the file is written to outDir and the
\* filename pushed, or the failure recorded (the write fails when outDir is
\* gone; a failed png write leaves the promise unsettled).
BatchRender(b) ==
    /\ multi.batch[b].pc = "mapping"
    /\ \E r \in RenderAnswers :
         LET p == ToBufferCallbackResult(multi.batch[b].name, r,
                                         multi.batch[b].outDir \in multi.dirs)
         IN multi' =
              IF p.st = "resolved"
              THEN [multi EXCEPT !.files = @ \cup {<<multi.batch[b].outDir, p.path>>},
                                 !.batch[b].pc = "rendered"]
              ELSE IF p.st = "rejected"
              THEN [multi EXCEPT !.batch[b].pc = "failed"]
              ELSE [multi EXCEPT !.batch[b].pc = "stuck"]
    /\ UNCHANGED <<cvars, conv, preview, bvars>>

\* After Promise.all: nothing produced answers 400 and the finally block
\* runs; otherwise the file is queued (archive.file) and finalize awaited.
BatchJoin(b) ==
    /\ multi.batch[b].pc \in {"rendered", "failed"}
    /\ multi' =
         IF multi.batch[b].pc = "failed"
         THEN [RemoveDir(multi, b) EXCEPT !.batch[b].pc = "done", !.batch[b].status = 400]
         ELSE [multi EXCEPT !.batch[b].pc = "queued"]
    /\ UNCHANGED <<cvars, conv, preview, bvars>>

\* The archiver reads the queued file from outDir; a file that is not
\* there fails the archive.
BatchConsume(b) ==
    /\ multi.batch[b].pc = "queued"
    /\ multi' =
         IF <<multi.batch[b].outDir, multi.batch[b].name>> \in multi.files
         THEN [multi EXCEPT !.batch[b].pc = "consumed"]
         ELSE [multi EXCEPT !.batch[b].pc = "archiveFailed"]
    /\ UNCHANGED <<cvars, conv, preview, bvars>>

\* finalize settles; the finally block removes outDir.
BatchFinish(b) ==
    /\ multi.batch[b].pc \in {"consumed", "archiveFailed"}
    /\ multi' = [RemoveDir(multi, b) EXCEPT
                    !.batch[b].pc = "done",
                    !.batch[b].status = IF multi.batch[b].pc = "consumed" THEN 200 ELSE 500]
    /\ UNCHANGED <<cvars, conv, preview, bvars>>

DirsNext ==
    \/ Tick
    \/ \E b \in Batches : BatchStart(b)
    \/ \E b \in Batches : BatchRender(b)
    \/ \E b \in Batches : BatchJoin(b)
    \/ \E b \in Batches : BatchConsume(b)
    \/ \E b \in Batches : BatchFinish(b)

SpecDirs == DirsInit /\ [][DirsNext]_vars

\* The text before the first line break, and the text after the last.
FirstLine(text) ==
    LET brk == {i \in 1..Len(text) : text[i] = "\n"} IN
    IF brk = {} THEN text
    ELSE SubSeq(text, 1, (CHOOSE i \in brk : \A j \in brk : i <= j) - 1)

LastLine(text) ==
    LET brk == {i \in 1..Len(text) : text[i] = "\n"} IN
    IF brk = {} THEN text
    ELSE SubSeq(text, (CHOOSE i \in brk : \A j \in brk : i >= j) + 1, Len(text))

\* C13: for every valid code and every markup, the first line of the EPS
\* output is '%!PS-Adobe-3.0 EPSF-3.0' and its last line is '%%EOF', with or
\* without black rectangles and width/height attributes in the markup.
C13_EpsFrame ==
    conv.phase = "done" =>
        /\ FirstLine(conv.out) = <<"%!PS-Adobe-3.0 EPSF-3.0">>
        /\ LastLine(conv.out) = <<"%%EOF">>

\* A conversion of markup with a black bar and without a size in digits.
C13_Witness ==
    /\ conv.phase = "done"
    /\ \E k \in 1..Len(conv.svg.rects) : IsBar(conv.svg.rects[k])
    /\ ~MatchDigits(conv.svg, "height").found
    /\ FirstLine(conv.out) = <<"%!PS-Adobe-3.0 EPSF-3.0">>
    /\ LastLine(conv.out) = <<"%%EOF">>

\* C17: a temporary preview file that was written is deleted before the
\* response is sent, on the success path and on every error path, a failure
\* of reading the file back included; none exists after the handler finishes.
C17_PreviewFileDeleted ==
    (preview.res.status # 0 \/ preview.phase = "done") => preview.tempFiles = {}

\* Handler b has its output directory and has not finished.
InProgress(b) == multi.batch[b].pc \notin {"idle", "waiting", "done"}

\* C18: no two batch requests in progress at the same time use the same
\* output directory.
C18_ExclusiveOutDir ==
    \A a, b \in Batches :
        (a # b /\ InProgress(a) /\ InProgress(b)) =>
            multi.batch[a].outDir # multi.batch[b].outDir

\* C20: a file queued into the archive is in the batch's output directory
\* from the moment it is queued until the archive writer has read it; the
\* directory is not removed before that.
C20_QueuedFileStays ==
    \A b \in Batches :
        multi.batch[b].pc = "queued" =>
            /\ multi.batch[b].outDir \in multi.dirs
            /\ <<multi.batch[b].outDir, multi.batch[b].name>> \in multi.files

\* The lines of a text: the pieces between its line breaks.
RECURSIVE SplitLines(_)
SplitLines(text) ==
    IF \A i \in 1..Len(text) : text[i] # "\n" THEN <<text>>
    ELSE <<FirstLine(text)>> \o SplitLines(SubSeq(text, Len(FirstLine(text)) + 2, Len(text)))

\* The drawing calls of an EPS text: its lines that end in rectfill.
IsDrawingCall(line) == Len(line) > 0 /\ line[Len(line)] = " rectfill"

DrawingCalls(text) == SelectSeq(SplitLines(text), IsDrawingCall)

\* A rect element whose fill is one of the three black spellings.
HasBlackFill(rect) == AttrPos(rect, "fill") > 0 /\ AttrValue(rect, "fill") \in BlackFills

\* The number an attribute of the element gives (0 when it gives none).
AttrNumber(rect, name) ==
    IF AttrPos(rect, name) = 0 THEN 0 ELSE ParseFloat(AttrValue(rect, name)).n

\* The call that draws the element with its own x, y, width and height.
OwnRectfill(rect) ==
    << ToString(AttrNumber(rect, "x")), " ", ToString(AttrNumber(rect, "y")), " ",
       ToString(AttrNumber(rect, "width")), " ", ToString(AttrNumber(rect, "height")),
       " rectfill" >>

\* C21: the drawing calls of the EPS output correspond one-to-one and in
\* document order to the rect elements whose fill is '#000000', 'black' or
\* '#000', each call with the element's x, y, width and height; a rect of
\* any other fill yields none.
C21_RectfillPerBlackRect ==
    conv.phase = "done" =>
        LET black == SelectSeq(conv.svg.rects, HasBlackFill)
        IN DrawingCalls(conv.out) = [k \in 1..Len(black) |-> OwnRectfill(black[k])]

\* The format the render of this request produces: svg, eps, or else png.
ProducedFormat ==
    IF Format(req.fileFormat) \in {"svg", "eps"} THEN Format(req.fileFormat) ELSE "png"

\* C22: the file a successful render wrote has the extension of the format
\* produced, and the filename recorded in successes is the name of that
\* file in the output directory, for every filename prefix.
C22_RecordedNameIsWrittenFile ==
    \A i \in 1..N :
        item[i].st = "success" =>
            /\ HasExtension(item[i].path, ProducedFormat)
            /\ Dirname(item[i].path) = OutDir
            /\ Basename(item[i].path) = item[i].filename
            /\ \E k \in 1..Len(successfulFiles) : successfulFiles[k] = item[i].filename

\* C23: every file entry of the archive is stored under a bare filename,
\* prefix + clean code + extension, without a directory component.
C23_BareEntryNames ==
    archive.created =>
        \A k \in 1..Len(archive.entries) :
            /\ "/" \notin Range(archive.entries[k])
            /\ \E i \in 1..N :
                 archive.entries[k] = PrefixOr(req.filenamePrefix)
                                        \o StripWhiteSpace(codes[i])
                                        \o Extension(Format(req.fileFormat))

\* C28: every file the batch has written lies inside its output directory.
C28_WritesInsideOutDir ==
    \A f \in files : InsideOutDir(f)

\* C24: the file entries are queued in the order of successes, report.json
\* after all of them; the report's errors are in the order of failures; and
\* finalize is called when every file entry and report.json are queued, the
\* queue not changing afterwards.
C24_QueueOrder ==
    /\ [](archive.created =>
            /\ archive.queue = [k \in 1..Len(successfulFiles) |-> FileTask(successfulFiles[k])]
                                 \o <<ReportTask>>
            /\ archive.report.errors = failedCodes
            /\ archive.finalizeCalled
            /\ archive.queuedAtFinalize = Len(successfulFiles) + 1)
    /\ [][archive.finalizeCalled => archive'.queue = archive.queue]_vars

\* An archive of two different files and one failure, written in queue order.
C24_Witness ==
    /\ archive.outcome = "finalized"
    /\ Len(successfulFiles) = 2
    /\ successfulFiles[1] # successfulFiles[2]
    /\ Len(failedCodes) = 1
    /\ archive.written = successfulFiles \o <<ReportName>>
    /\ archive.report.errors = failedCodes

\* generateBarcodeWithBwip has been called for item i.
Rendered(i) == item[i].st \notin {"unmapped", "invalid"}

\* C25: every render request carries a positive heightMM and a positive
\* widthMM, whatever the batch request supplies for them, and the renderer
\* is handed a scale of at least 3 and a bar height of at least 20.
C25_PositiveDimensions ==
    \A i \in 1..N :
        Rendered(i) =>
            /\ item[i].request.heightMM > 0
            /\ item[i].request.widthMM > 0
            /\ item[i].bwipOptions.scale >= 3
            /\ item[i].bwipOptions.heightTimes3 >= 60

\* The handler can take no further step: it has returned, it is left at
\* await archive.finalize(), or it is left at the barrier with a render that
\* never settles and nothing else to wait for.
HandlerAtRest ==
    \/ pc \in {"done", "stuck"}
    \/ /\ pc = "mapping"
       /\ mapIdx > N
       /\ microq = <<>>
       /\ \A i \in 1..N : item[i].st # "pending"
       /\ \E i \in 1..N : item[i].st = "hung"

\* C26: the batch request gets exactly one response: a response is never
\* started a second time, and on every path through the handler, once the
\* handler can take no further step, one has been started.
C26_ExactlyOneResponse ==
    /\ res.starts <= 1
    /\ HandlerAtRest => res.starts = 1

\* The items that failed classify / validate, and the place of such an item
\* among them in input order.
InvalidItems == {i \in 1..N : item[i].st = "invalid"}

InvalidRank(i) == Cardinality({j \in InvalidItems : j <= i})

\* C27: in failures, the validation failures come before every render
\* failure, and they are in input order.
C27_ValidationFailuresFirst ==
    /\ \A k, l \in 1..Len(failedCodes) :
          (k < l /\ failedCodes[l].reason = InvalidData) => failedCodes[k].reason = InvalidData
    /\ \A i \in InvalidItems :
          /\ InvalidRank(i) <= Len(failedCodes)
          /\ failedCodes[InvalidRank(i)] = [code |-> codes[i], reason |-> InvalidData]

\* A render failure of an item that stands before two different invalid codes.
C27_Witness ==
    /\ Joined
    /\ \E i, j, k \in 1..N :
          /\ i < j /\ j < k
          /\ item[i].st = "failure"
          /\ item[j].st = "invalid" /\ item[k].st = "invalid"
          /\ codes[j] # codes[k]
    /\ Len(failedCodes) = 3
    /\ failedCodes[3].reason # InvalidData

====
